---- MODULE Spec2Model ----
(***************************************************************************)
(* Plan-and-Execute workflow of backend/: the Supervisor router, the       *)
(* Planner, Executor and Validator nodes, and the engine loop of           *)
(* AgentWorkflow (run / resume) that drives them for one thread.           *)
(*                                                                         *)
(* Optional values (Python None / a value) are sequences of length 0 or 1. *)
(* Free text (error messages, error_info) is kept as its fixed prefix.     *)
(***************************************************************************)
EXTENDS Integers, Sequences, FiniteSets, TLC

VARIABLES
    state,        \* the AgentState the loop of the thread holds / returned last
    checkpoint,   \* the checkpointer's entry for the thread
    pc,           \* "idle" (no loop running) or the node the loop invokes next
    entry,        \* entry point of the running / last loop: "none", "run", "resume"
    rejected,     \* the Validator has set final_status = failed on this thread
    plans,        \* number of plans built so far (uuid freshness of step ids)
    resumes,      \* number of resume calls so far
    invoked,      \* the Executor's attempts on the current step in this run
    resume_error, \* the exception the latest resume call raised, or "none"
    active_connections, \* ConnectionManager: conversation_id -> set of websockets
    handler,      \* per websocket: where its websocket_endpoint coroutine is
    threads,      \* thread ids under which the checkpointer holds a state
    emit,         \* per emitter: where its send_to_conversation call is
    inbox,        \* per websocket: the events its client received, in order
    crashed,      \* the process died while a node of the thread was running
    registry,     \* ToolRegistry: _tools and _schemas
    reg_call,     \* the latest call on the registry and what it returned
    routed        \* two states handed to the router, and what the calls gave

wfVars == <<state, checkpoint, pc, entry, rejected, plans, resumes, invoked,
            resume_error, crashed>>

wsVars == <<active_connections, handler, threads, emit, inbox>>

regVars == <<registry, reg_call>>

vars == <<wfVars, wsVars, regVars, routed>>

-----------------------------------------------------------------------------
(* Bounds of the model *)

\* longest plan of the Chat Generator whose steps are enumerated freely
MaxPlanLen == 2
\* number of resume calls on the thread
MaxResumes == 1
\* websockets that are opened
MaxSockets == 2
\* functions and schemas a tool name is registered with
MaxVersions == 2
\* events one stream loop yields
MaxEvents == 3

(* Program constants *)

MAX_TASK_STEPS == 20
MAX_RETRY_COUNT == 3

-----------------------------------------------------------------------------
(* Optional values *)

None == <<>>
Some(x) == <<x>>

(* Tools *)

NoTool == "None"
\* names present in tool_registry._tools
Registered == {"calculator"}
\* tool_name values a plan step may carry
ToolChoices == {NoTool, "calculator", "nonexistent"}

(* Nondeterministic answers of the collaborators *)

\* parameter synthesis by the Chat Generator
SynthOutcomes == {"args", "unparseable", "sentinel", "error"}
\* tool.ainvoke under asyncio.wait_for
ToolOutcomes == {"ok", "timeout", "error"}
\* the Validator's Chat Generator answer
Verdicts == {"successful", "rejected", "unparseable", "error"}
\* user_provided_config passed to resume
UserConfigs == {"empty", "smtp"}

\* plans the Chat Generator may return: every short plan, and tool-less
\* plans at and just above the MAX_TASK_STEPS cap
PlanSteps ==
    UNION {[1..n -> ToolChoices] : n \in 0..MaxPlanLen}
    \cup {[i \in 1..n |-> NoTool] : n \in {MAX_TASK_STEPS, MAX_TASK_STEPS + 1}}

PlannerOutcomes ==
    {[ok |-> TRUE, steps |-> p] : p \in PlanSteps}
    \cup {[ok |-> FALSE, steps |-> <<>>]}

-----------------------------------------------------------------------------
(* State models *)

TaskStep(id, tool_name) ==
    [id          |-> id,
     status      |-> "pending",
     tool_name   |-> tool_name,
     tool_input  |-> None,
     tool_output |-> None,
     error       |-> None,
     retry_count |-> 0]

InitialState ==
    [todo_list            |-> <<>>,
     current_step_index   |-> 0,
     step_results         |-> <<>>,
     pending_user_input   |-> None,
     user_provided_config |-> None,
     current_agent        |-> "supervisor",
     final_status         |-> "pending",
     error_info           |-> None]

\* error_info: the fixed text of the message, the number and the detail put into it
ErrorInfo(text, n, detail) == [text |-> text, n |-> n, detail |-> detail]

-----------------------------------------------------------------------------
(* SupervisorAgent.route *)

\* route that ends the run instead of handing over to the Validator
RouteSkipsValidator(s) ==
    IF s.final_status \in {"failed", "success"} THEN "end"
    ELSE IF s.pending_user_input # None THEN "end"
    ELSE IF s.todo_list = <<>> THEN "planner"
    ELSE IF s.current_step_index < Len(s.todo_list) THEN "executor"
    ELSE "end"

\* route without the suspension check
RouteIgnoresPending(s) ==
    IF s.final_status \in {"failed", "success"} THEN "end"
    ELSE IF s.todo_list = <<>> THEN "planner"
    ELSE IF s.current_step_index < Len(s.todo_list) THEN "executor"
    ELSE "validator"

\* route that leaves a finished plan to the Executor
RouteLeavesFinishToExecutor(s) ==
    IF s.final_status = "failed" THEN "end"
    ELSE IF s.final_status = "success" THEN "end"
    ELSE IF s.pending_user_input # None THEN "end"
    ELSE IF s.todo_list = <<>> THEN "planner"
    ELSE "executor"

\* route that also ends the run as soon as an error_info is present
RouteEndsOnErrorInfo(s) ==
    IF s.final_status = "failed" THEN "end"
    ELSE IF s.final_status = "success" THEN "end"
    ELSE IF s.error_info # None THEN "end"
    ELSE IF s.pending_user_input # None THEN "end"
    ELSE IF s.todo_list = <<>> THEN "planner"
    ELSE IF s.current_step_index < Len(s.todo_list) THEN "executor"
    ELSE "validator"

Route(s) ==
    IF s.final_status = "failed" THEN "end"
    ELSE IF s.final_status = "success" THEN "end"
    ELSE IF s.pending_user_input # None THEN "end"
    ELSE IF s.todo_list = <<>> THEN "planner"
    ELSE IF s.current_step_index < Len(s.todo_list) THEN "executor"
    ELSE IF s.current_step_index >= Len(s.todo_list) /\ s.final_status # "success"
         THEN "validator"
    ELSE "end"

\* _supervisor_route: the label, and the state as the call leaves it
SupervisorRoute(s) == [label |-> Route(s), state |-> s]

-----------------------------------------------------------------------------
(* PlannerAgent.plan *)

\* plan that installs the new todo_list without resetting current_step_index
PlanKeepsIndex(s, out, gen) ==
    IF out.ok
    THEN [s EXCEPT
            !.todo_list = [i \in 1..Len(out.steps) |-> TaskStep(<<gen, i>>, out.steps[i])],
            !.current_agent = "planner"]
    ELSE [s EXCEPT
            !.error_info = Some(ErrorInfo("Planning error", 0, "")),
            !.final_status = "failed"]

\* plan that drops the old todo_list when it fails
PlanFailureClearsList(s, out, gen) ==
    IF out.ok
    THEN [s EXCEPT
            !.todo_list = [i \in 1..Len(out.steps) |-> TaskStep(<<gen, i>>, out.steps[i])],
            !.current_step_index = 0,
            !.current_agent = "planner"]
    ELSE [s EXCEPT
            !.todo_list = <<>>,
            !.current_step_index = 0,
            !.error_info = Some(ErrorInfo("Planning error", 0, "")),
            !.final_status = "failed"]

Plan(s, out, gen) ==
    IF out.ok
    THEN [s EXCEPT
            !.todo_list = [i \in 1..Len(out.steps) |-> TaskStep(<<gen, i>>, out.steps[i])],
            !.current_step_index = 0,
            !.current_agent = "planner"]
    ELSE [s EXCEPT
            !.error_info = Some(ErrorInfo("Planning error", 0, "")),
            !.final_status = "failed"]

-----------------------------------------------------------------------------
(* ExecutorAgent *)

\* "not step.tool_input": None and the empty mapping are both falsy
Falsy(tool_input) == tool_input = None \/ tool_input = Some("empty")

\* _execute_tool_step that lets the parse failure of the synthesis fail the attempt
ExecuteToolStepRejectsUnparseable(step, synth, tool) ==
    IF step.tool_name \notin Registered
    THEN [step |-> step, raised |-> TRUE, called |-> FALSE, value |-> "Tool not found"]
    ELSE IF Falsy(step.tool_input) /\ synth \in {"error", "unparseable"}
    THEN [step |-> step, raised |-> TRUE, called |-> FALSE,
          value |-> "Parameter synthesis error"]
    ELSE IF Falsy(step.tool_input) /\ synth = "sentinel"
    THEN [step |-> step, raised |-> FALSE, called |-> FALSE,
          value |-> "requires_user_input"]
    ELSE
        LET filled ==
                IF ~Falsy(step.tool_input) THEN step
                ELSE [step EXCEPT !.tool_input = Some("args")]
        IN  CASE tool = "ok" ->
                    [step |-> filled, raised |-> FALSE, called |-> TRUE,
                     value |-> "success"]
              [] tool = "timeout" ->
                    [step |-> filled, raised |-> TRUE, called |-> TRUE,
                     value |-> "Tool execution timeout"]
              [] OTHER ->
                    [step |-> filled, raised |-> TRUE, called |-> TRUE,
                     value |-> "Tool execution failed"]

\* _execute_tool_step that synthesises the parameters before it looks the tool up
ExecuteToolStepSynthesisFirst(step, synth, tool) ==
    IF Falsy(step.tool_input) /\ synth = "error"
    THEN [step |-> step, raised |-> TRUE, called |-> FALSE,
          value |-> "Parameter synthesis error"]
    ELSE IF Falsy(step.tool_input) /\ synth = "sentinel"
    THEN [step |-> step, raised |-> FALSE, called |-> FALSE,
          value |-> "requires_user_input"]
    ELSE
        LET filled ==
                IF ~Falsy(step.tool_input) THEN step
                ELSE IF synth = "args" THEN [step EXCEPT !.tool_input = Some("args")]
                ELSE [step EXCEPT !.tool_input = Some("empty")]
        IN  IF step.tool_name \notin Registered
            THEN [step |-> filled, raised |-> TRUE, called |-> FALSE,
                  value |-> "Tool not found"]
            ELSE CASE tool = "ok" ->
                        [step |-> filled, raised |-> FALSE, called |-> TRUE,
                         value |-> "success"]
                   [] tool = "timeout" ->
                        [step |-> filled, raised |-> TRUE, called |-> TRUE,
                         value |-> "Tool execution timeout"]
                   [] OTHER ->
                        [step |-> filled, raised |-> TRUE, called |-> TRUE,
                         value |-> "Tool execution failed"]

\* _execute_tool_step: the step as it leaves it, and what it returned or raised
ExecuteToolStep(step, synth, tool) ==
    IF step.tool_name \notin Registered
    THEN [step |-> step, raised |-> TRUE, called |-> FALSE, value |-> "Tool not found"]
    ELSE IF Falsy(step.tool_input) /\ synth = "error"
    THEN [step |-> step, raised |-> TRUE, called |-> FALSE,
          value |-> "Parameter synthesis error"]
    ELSE IF Falsy(step.tool_input) /\ synth = "sentinel"
    THEN [step |-> step, raised |-> FALSE, called |-> FALSE,
          value |-> "requires_user_input"]
    ELSE
        LET filled ==
                IF ~Falsy(step.tool_input) THEN step
                ELSE IF synth = "args" THEN [step EXCEPT !.tool_input = Some("args")]
                ELSE [step EXCEPT !.tool_input = Some("empty")]
        IN  CASE tool = "ok" ->
                    [step |-> filled, raised |-> FALSE, called |-> TRUE,
                     value |-> "success"]
              [] tool = "timeout" ->
                    [step |-> filled, raised |-> TRUE, called |-> TRUE,
                     value |-> "Tool execution timeout"]
              [] OTHER ->
                    [step |-> filled, raised |-> TRUE, called |-> TRUE,
                     value |-> "Tool execution failed"]

\* the current step is marked running
MarkRunning(s) ==
    [s EXCEPT !.todo_list[s.current_step_index + 1].status = "running",
              !.current_agent = "executor"]

\* pending_user_input as execute_step records it from the sentinel
PendingInput(step) ==
    [step_id        |-> step.id,
     tool_name      |-> step.tool_name,
     missing_params |-> "missing_params of the sentinel",
     reason         |-> "reason of the sentinel"]

\* suspension that counts as a failed attempt
SuspendCountsRetry(s) ==
    LET i == s.current_step_index + 1
    IN  [s EXCEPT !.todo_list[i].retry_count = @ + 1,
                  !.pending_user_input = Some(PendingInput(s.todo_list[i]))]

\* suspension that puts the step back to pending
SuspendResetsStep(s) ==
    LET i == s.current_step_index + 1
        step == s.todo_list[i]
    IN  [s EXCEPT !.todo_list[i].status = "pending",
                  !.pending_user_input =
                     Some(PendingInput(step))]

\* the tool step asked for user input: the waiting mark is recorded, the step stays as it is
Suspend(s) ==
    LET step == s.todo_list[s.current_step_index + 1]
    IN  [s EXCEPT !.pending_user_input =
                     Some(PendingInput(step))]

\* completion that loses the tool's result
CompleteToolStepDropsOutput(s, result) ==
    [s EXCEPT !.todo_list[s.current_step_index + 1].status = "completed"]

\* a tool step succeeded
CompleteToolStep(s, result) ==
    LET i == s.current_step_index + 1
    IN  [s EXCEPT !.todo_list[i].tool_output = Some(result),
                  !.todo_list[i].status = "completed"]

\* completion that leaves the step running
CompletePlainStepForgets(s) == s

\* a step without a tool
CompletePlainStep(s) ==
    [s EXCEPT !.todo_list[s.current_step_index + 1].status = "completed"]

\* tail of execute_step that neither saves the result nor moves the index
FinishStepStaysPut(s) == s

\* the tail of execute_step: result saved, index moved on
FinishStep(s) ==
    LET step == s.todo_list[s.current_step_index + 1]
    IN  [s EXCEPT
            !.step_results = Append(@, [step_id |-> step.id, result |-> step.tool_output]),
            !.current_step_index = @ + 1]

\* except branch with the retry test off by one (<= instead of <)
FailStepRetriesOnceMore(s, message) ==
    LET i == s.current_step_index + 1
        n == s.todo_list[i].retry_count + 1
        failed == [s EXCEPT !.todo_list[i].status = "failed",
                            !.todo_list[i].error = Some("message"),
                            !.todo_list[i].retry_count = n]
    IN  IF n <= MAX_RETRY_COUNT
        THEN [failed EXCEPT !.todo_list[i].status = "pending"]
        ELSE [failed EXCEPT
                !.error_info = Some(ErrorInfo("Step failed after N retries",
                                              MAX_RETRY_COUNT, message)),
                !.final_status = "failed"]

\* except branch that gives up on the first failure
FailStepGivesUpAtOnce(s, message) ==
    LET i == s.current_step_index + 1
    IN  [s EXCEPT !.todo_list[i].status = "failed",
                  !.todo_list[i].error = Some("message"),
                  !.todo_list[i].retry_count = @ + 1,
                  !.error_info = Some(ErrorInfo("Step failed after N retries",
                                                MAX_RETRY_COUNT, message)),
                  !.final_status = "failed"]

\* except branch that leaves a step that may be retried in status failed
FailStepKeepsFailed(s, message) ==
    LET i == s.current_step_index + 1
        n == s.todo_list[i].retry_count + 1
        failed == [s EXCEPT !.todo_list[i].status = "failed",
                            !.todo_list[i].error = Some("message"),
                            !.todo_list[i].retry_count = n]
    IN  IF n < MAX_RETRY_COUNT
        THEN failed
        ELSE [failed EXCEPT
                !.error_info = Some(ErrorInfo("Step failed after N retries",
                                              MAX_RETRY_COUNT, message)),
                !.final_status = "failed"]

\* the except branch of execute_step (step.error is kept as set / not set,
\* the message itself goes to error_info)
FailStep(s, message) ==
    LET i == s.current_step_index + 1
        n == s.todo_list[i].retry_count + 1
        failed == [s EXCEPT !.todo_list[i].status = "failed",
                            !.todo_list[i].error = Some("message"),
                            !.todo_list[i].retry_count = n]
    IN  IF n < MAX_RETRY_COUNT
        THEN [failed EXCEPT !.todo_list[i].status = "pending"]
        ELSE [failed EXCEPT
                !.error_info = Some(ErrorInfo("Step failed after N retries",
                                              MAX_RETRY_COUNT, message)),
                !.final_status = "failed"]

ExecuteStep(s, synth, tool) ==
    IF s.current_step_index >= Len(s.todo_list)
    THEN [s EXCEPT !.final_status = "success"]
    ELSE
        LET i == s.current_step_index + 1
            running == MarkRunning(s)
        IN  IF running.todo_list[i].tool_name # NoTool
            THEN LET r == ExecuteToolStep(running.todo_list[i], synth, tool)
                     after == [running EXCEPT !.todo_list[i] = r.step]
                 IN  IF r.raised THEN FailStep(after, r.value)
                     ELSE IF r.value = "requires_user_input" THEN Suspend(after)
                     ELSE FinishStep(CompleteToolStep(after, r.value))
            ELSE FinishStep(CompletePlainStep(running))

\* the index (1-based) of the step the Executor works on
Cur(s) == s.current_step_index + 1

\* the attempts of execute_step on the current step within the current run:
\* calls of the invoker, and attempts that raised before the invoker was reached
NoAttempts == [calls |-> 0, skipped |-> 0]

\* the record after execute_step ran on s: started afresh when the step
\* completes, unchanged when the step has no tool or the attempt suspends
Attempts(log, s, synth, tool) ==
    IF s.current_step_index >= Len(s.todo_list) THEN log
    ELSE
        LET step == MarkRunning(s).todo_list[s.current_step_index + 1]
            r == ExecuteToolStep(step, synth, tool)
        IN  IF step.tool_name = NoTool THEN log
            ELSE IF r.called /\ ~r.raised THEN NoAttempts
            ELSE IF r.called THEN [log EXCEPT !.calls = @ + 1]
            ELSE IF r.raised THEN [log EXCEPT !.skipped = @ + 1]
            ELSE log

-----------------------------------------------------------------------------
(* ValidatorAgent.validate *)

AllCompleted(s) ==
    \A i \in 1..Len(s.todo_list) : s.todo_list[i].status = "completed"

AnyFailed(s) ==
    \E i \in 1..Len(s.todo_list) : s.todo_list[i].status = "failed"

\* validate that answers a rejection by asking for a new plan
ValidateRequestsReplan(s, verdict) ==
    IF ~AllCompleted(s) /\ AnyFailed(s)
    THEN [s EXCEPT !.final_status = "failed",
                   !.error_info = Some(ErrorInfo("step failed", 0, "message"))]
    ELSE CASE verdict = "error" ->
                [s EXCEPT !.error_info = Some(ErrorInfo("Validation error", 0, "")),
                          !.final_status = "failed"]
           [] verdict = "rejected" ->
                [s EXCEPT !.todo_list = <<>>,
                          !.current_step_index = 0,
                          !.current_agent = "validator"]
           [] OTHER ->
                [s EXCEPT !.final_status = "success",
                          !.current_agent = "validator"]

\* validate that reports a rejection as an internal error
ValidateRejectionAsError(s, verdict) ==
    IF ~AllCompleted(s) /\ AnyFailed(s)
    THEN [s EXCEPT !.final_status = "failed",
                   !.error_info = Some(ErrorInfo("step failed", 0, "message"))]
    ELSE CASE verdict \in {"error", "rejected"} ->
                [s EXCEPT !.error_info = Some(ErrorInfo("Validation error", 0, "")),
                          !.final_status = "failed"]
           [] OTHER ->
                [s EXCEPT !.final_status = "success",
                          !.current_agent = "validator"]

Validate(s, verdict) ==
    IF ~AllCompleted(s) /\ AnyFailed(s)
    THEN [s EXCEPT !.final_status = "failed",
                   !.error_info = Some(ErrorInfo("step failed", 0, "message"))]
    ELSE CASE verdict = "error" ->
                [s EXCEPT !.error_info = Some(ErrorInfo("Validation error", 0, "")),
                          !.final_status = "failed"]
           [] verdict = "rejected" ->
                [s EXCEPT !.final_status = "failed",
                          !.error_info = Some(ErrorInfo("failure_reason", 0, "")),
                          !.current_agent = "validator"]
           [] OTHER ->
                [s EXCEPT !.final_status = "success",
                          !.current_agent = "validator"]

-----------------------------------------------------------------------------
(* AgentWorkflow: the graph and its loop *)

\* labels the conditional edges of a node map to a target
Edges(node) ==
    CASE node = "planner"   -> {"executor", "validator", "end"}
      [] node = "executor"  -> {"executor", "validator", "end"}
      [] node = "validator" -> {"planner", "end"}

\* resume: the stored state with the waiting mark cleared and the config injected
ResumeState(s, cfg) ==
    [s EXCEPT !.pending_user_input = None, !.user_provided_config = Some(cfg)]

\* a node returned s2: the conditional edge is taken and the state checkpointed,
\* or the label has no edge and the loop ends in the caller's except branch
Transition(node, s2) ==
    LET next == Route(s2)
    IN  IF next \in Edges(node)
        THEN /\ state' = Some(s2)
             /\ checkpoint' = Some(s2)
             /\ pc' = IF next = "end" THEN "idle" ELSE next
        ELSE /\ state' = IF entry = "run"
                         THEN Some([InitialState EXCEPT
                                      !.final_status = "failed",
                                      !.error_info = Some(ErrorInfo("engine error", 0, ""))])
                         ELSE checkpoint
             /\ checkpoint' = checkpoint
             /\ pc' = "idle"

\* get_state that makes up a fresh state for an unknown thread
ThreadStateOrInitial(cp) == IF cp = None THEN Some(InitialState) ELSE cp

\* get_state: the values stored for the thread, if any
ThreadState(cp) == cp

WfInit ==
    /\ state = None
    /\ checkpoint = None
    /\ pc = "idle"
    /\ entry = "none"
    /\ rejected = FALSE
    /\ plans = 0
    /\ resumes = 0
    /\ invoked = NoAttempts
    /\ resume_error = "none"
    /\ crashed = FALSE

\* AgentWorkflow.run: the initial state is built and the graph is entered at its
\* entry point, the planner; a thread is started once and resumed afterwards
Start ==
    /\ pc = "idle"
    /\ state = None
    /\ state' = Some(InitialState)
    /\ pc' = "planner"
    /\ entry' = "run"
    /\ invoked' = NoAttempts
    /\ UNCHANGED <<checkpoint, rejected, plans, resumes, resume_error>>
    /\ UNCHANGED <<crashed, wsVars, regVars, routed>>

\* AgentWorkflow.resume: the stored state, with the waiting mark cleared, is
\* handed to graph.invoke, which enters the graph at its entry point again
\* (a thread without stored state makes it raise before anything is changed)
Resume ==
    /\ pc = "idle"
    /\ resumes < MaxResumes
    /\ resumes' = resumes + 1
    /\ LET found == ThreadState(checkpoint)
       IN  IF found = None
           THEN /\ resume_error' = "No state found for thread"
                /\ UNCHANGED <<state, pc, entry, invoked>>
           ELSE /\ \E cfg \in UserConfigs :
                      state' = Some(ResumeState(found[1], cfg))
                /\ pc' = "planner"
                /\ entry' = "resume"
                /\ resume_error' = "none"
                /\ invoked' = NoAttempts
    /\ UNCHANGED <<checkpoint, rejected, plans>>
    /\ UNCHANGED <<crashed, wsVars, regVars, routed>>

PlannerNode ==
    /\ pc = "planner"
    /\ \E out \in PlannerOutcomes :
          /\ Transition("planner", Plan(state[1], out, plans + 1))
          /\ plans' = IF out.ok THEN plans + 1 ELSE plans
    /\ UNCHANGED <<entry, rejected, resumes, invoked, resume_error>>
    /\ UNCHANGED <<crashed, wsVars, regVars, routed>>

\* plans of every length whose steps all name the same tool, a failure, and a
\* tool-less plan at the MAX_TASK_STEPS cap
UniformOutcomes ==
    {out \in PlannerOutcomes :
        /\ Len(out.steps) <= MAX_TASK_STEPS
        /\ \A i \in 1..Len(out.steps) : out.steps[i] = out.steps[1]}

\* the planner node on the plans of UniformOutcomes
PlannerNodeUniform ==
    /\ pc = "planner"
    /\ \E out \in UniformOutcomes :
          /\ Transition("planner", Plan(state[1], out, plans + 1))
          /\ plans' = IF out.ok THEN plans + 1 ELSE plans
    /\ UNCHANGED <<entry, rejected, resumes, invoked, resume_error>>
    /\ UNCHANGED <<crashed, wsVars, regVars, routed>>

\* the process dies while a node runs: what the node did in memory is lost, the
\* checkpointer still holds what it stored after the last node that returned
Crash ==
    /\ pc \in {"planner", "executor", "validator"}
    /\ pc' = "idle"
    /\ state' = checkpoint
    /\ crashed' = TRUE
    /\ UNCHANGED <<checkpoint, entry, rejected, plans, resumes, invoked, resume_error>>
    /\ UNCHANGED <<wsVars, regVars, routed>>

\* what the Chat Generator may answer to the parameter synthesis of the current
\* step: it is asked only for a step of a registered tool without tool_input
SynthAnswers(s) ==
    IF /\ s.current_step_index < Len(s.todo_list)
       /\ s.todo_list[Cur(s)].tool_name \in Registered
       /\ Falsy(s.todo_list[Cur(s)].tool_input)
    THEN SynthOutcomes
    ELSE {"args"}

\* what the invoker may do on the current step: it is called only when
\* _execute_tool_step gets as far as the call
ToolAnswers(s, synth) ==
    IF /\ s.current_step_index < Len(s.todo_list)
       /\ s.todo_list[Cur(s)].tool_name # NoTool
       /\ ExecuteToolStep(s.todo_list[Cur(s)], synth, "ok").called
    THEN ToolOutcomes
    ELSE {"ok"}

ExecutorNode ==
    /\ pc = "executor"
    /\ \E synth \in SynthAnswers(state[1]) :
       \E tool \in ToolAnswers(state[1], synth) :
          /\ Transition("executor", ExecuteStep(state[1], synth, tool))
          /\ invoked' = Attempts(invoked, state[1], synth, tool)
    /\ UNCHANGED <<entry, rejected, plans, resumes, resume_error>>
    /\ UNCHANGED <<crashed, wsVars, regVars, routed>>

ValidatorNode ==
    /\ pc = "validator"
    /\ \E verdict \in Verdicts :
          LET s2 == Validate(state[1], verdict)
          IN  /\ Transition("validator", s2)
              /\ rejected' = (rejected \/ s2.final_status = "failed")
    /\ UNCHANGED <<entry, plans, resumes, invoked, resume_error>>
    /\ UNCHANGED <<crashed, wsVars, regVars, routed>>

-----------------------------------------------------------------------------
(* The websocket API: ConnectionManager, websocket_endpoint and its handlers *)

Sockets == 1..MaxSockets
\* the coroutines that call send_to_conversation, one event each
Emitters == {"e1", "e2"}
Conversations == {"A", "B"}

\* a thread id that is the id of a Task row (a uuid, never a conversation id)
TaskId == "task"

\* what the stream loop yields: the event of a node, whose state has the
\* final_status of the kind, or the dictionary built when the engine raised
EventKinds == {"pending", "success", "failed", "error"}

StreamEventOf(kind) ==
    IF kind = "error"
    THEN [error |-> "str", final_status |-> "failed", state |-> None]
    ELSE [error |-> "none", final_status |-> "none", state |-> Some(kind)]

\* extract_state_from_event: the first value of the event that is a dict
ExtractStateFromEvent(event) == event.state

\* the members of TaskStatusEnum, the type of the column Task.status
TaskStatusEnum == {"pending", "running", "completed", "failed"}

NoTask == [status |-> "none", version |-> 0]

\* task_repo.create: the row of a new Task
CreatedTask == [status |-> "pending", version |-> 0]

\* update_task_in_db: the fields of the state (its version stands for todo_list,
\* current_step_index, step_results and error_info) are stored with status =
\* final_status in one commit; a status the column does not accept makes the
\* commit raise, which is caught and logged
UpdateTaskInDb(task, final_status, version) ==
    IF final_status \in TaskStatusEnum
    THEN [status |-> final_status, version |-> version]
    ELSE task

\* a websocket_endpoint before its connection is accepted
NewHandler ==
    [pc |-> "new", conv |-> "none", events |-> 0, reply |-> "none",
     final |-> "none", shown |-> "none", task |-> NoTask, asked |-> "none"]

\* the thread id under which the stream loop of a conversation checkpoints
ThreadOf(conversation_id) == conversation_id

Min(set) == CHOOSE x \in set : \A y \in set : x <= y

\* the websockets registered for k (no key: none)
Subscribers(conns, k) == IF k \in DOMAIN conns THEN conns[k] ELSE {}

\* connect: the key is created when missing, the websocket added
Add(conns, w, k) ==
    [j \in DOMAIN conns \cup {k} |->
        IF j = k THEN Subscribers(conns, k) \cup {w} ELSE conns[j]]

\* disconnect that empties the whole mapping when a set is left empty
RemoveClearsAll(conns, gone, k) ==
    IF k \notin DOMAIN conns THEN conns
    ELSE IF conns[k] \ gone = {}
    THEN << >>
    ELSE [conns EXCEPT ![k] = @ \ gone]

\* disconnect, for each websocket of gone: discard, and the key is deleted when
\* the set is left empty
Remove(conns, gone, k) ==
    IF k \notin DOMAIN conns THEN conns
    ELSE IF conns[k] \ gone = {}
    THEN [j \in DOMAIN conns \ {k} |-> conns[j]]
    ELSE [conns EXCEPT ![k] = @ \ gone]

\* a send_to_conversation call that is not running
IdleEmit ==
    [pc |-> "idle", conv |-> "none", start |-> {}, size |-> 0, pos |-> 0,
     target |-> 0, live |-> FALSE, failed |-> {}]

\* the set object an iterating emit holds: the one of the mapping, or the
\* emptied one that disconnect deleted from the mapping
Iterated(em, conns) == IF em.live THEN Subscribers(conns, em.conv) ELSE {}

\* the iterators over the set of a deleted key are left with the emptied set
DropIterators(ems, conns2) ==
    [e \in DOMAIN ems |->
        IF ems[e].pc = "sending" /\ ems[e].live /\ ems[e].conv \notin DOMAIN conns2
        THEN [ems[e] EXCEPT !.live = FALSE]
        ELSE ems[e]]

\* the for loop takes its next websocket (set iteration goes by slot, the
\* websockets are numbered by slot) after the send to em.target returned:
\* RuntimeError when the set changed size, the cleanup after the last one
EmitNext(em, conns) ==
    LET set == Iterated(em, conns)
        rest == {w \in set : w > em.pos}
    IN  IF Cardinality(set) # em.size
        THEN [IdleEmit EXCEPT !.pc = "raised", !.conv = em.conv]
        ELSE IF rest # {}
        THEN [em EXCEPT !.pos = Min(rest), !.target = Min(rest)]
        ELSE [IdleEmit EXCEPT !.pc = "done", !.conv = em.conv, !.failed = em.failed]

-----------------------------------------------------------------------------
(* ToolRegistry *)

ToolNames == {"calculator", "send_email", "web_search"}
Versions == 1..MaxVersions

\* the two class-level dictionaries, empty when the module is loaded
EmptyRegistry == [tools |-> << >>, schemas |-> << >>]

\* d[name] = value
Put(d, name, value) ==
    [n \in DOMAIN d \cup {name} |-> IF n = name THEN value ELSE d[n]]

\* del d[name]
Del(d, name) == [n \in DOMAIN d \ {name} |-> d[n]]

\* register_tool: StructuredTool.from_function raises (built = FALSE) before
\* anything is stored, else both dictionaries get the entry of the name
RegisterTool(reg, name, func, schema, built) ==
    IF built
    THEN [tools |-> Put(reg.tools, name, func), schemas |-> Put(reg.schemas, name, schema)]
    ELSE reg

\* unregister_tool that forgets the schema dictionary
UnregisterToolOnly(reg, name) ==
    IF name \in DOMAIN reg.tools
    THEN [reg EXCEPT !.tools = Del(reg.tools, name)]
    ELSE reg

\* unregister_tool: both entries are deleted when the name is in _tools
UnregisterTool(reg, name) ==
    IF name \in DOMAIN reg.tools
    THEN [tools |-> Del(reg.tools, name), schemas |-> Del(reg.schemas, name)]
    ELSE reg

\* get_tool and get_schema of one name: which of the two are not None
GetTool(reg, name) ==
    [tool |-> name \in DOMAIN reg.tools, schema |-> name \in DOMAIN reg.schemas]

\* no state has been handed to the router
NotRouted == [given |-> <<>>, label |-> <<>>, after |-> <<>>]

\* states with every combination of what route looks at
RouteInputs ==
    {[InitialState EXCEPT
         !.final_status = f,
         !.pending_user_input = p,
         !.todo_list = [i \in 1..n |-> TaskStep(<<1, i>>, NoTool)],
         !.current_step_index = k] :
        f \in {"pending", "success", "failed"},
        p \in {None, Some(PendingInput(TaskStep(<<1, 1>>, "calculator")))},
        n \in 0..MaxPlanLen,
        k \in 0..MaxPlanLen}

\* states that agree with s on final_status, pending_user_input, the length of
\* todo_list and current_step_index, and differ in what else a state holds
Alike(s) ==
    {[s EXCEPT !.todo_list = [i \in 1..Len(s.todo_list) |->
                                 [s.todo_list[i] EXCEPT !.status = st,
                                                        !.tool_name = name]],
               !.step_results = results,
               !.user_provided_config = cfg,
               !.current_agent = agent,
               !.error_info = info] :
        st \in {"pending", "failed"},
        name \in {NoTool, "calculator"},
        results \in {<<>>, <<[step_id |-> <<1, 1>>, result |-> None]>>},
        cfg \in {None, Some("smtp")},
        agent \in {"supervisor", "executor"},
        info \in {None, Some(ErrorInfo("Planning error", 0, ""))}}

\* two states that agree on what route looks at
RouteInit ==
    \E a \in RouteInputs : \E b \in Alike(a) : \E c \in Alike(a) :
        routed = [NotRouted EXCEPT !.given = <<b, c>>]

\* the router is called on each of the two states
ApplyRoute ==
    /\ routed.given # <<>> /\ routed.label = <<>>
    /\ routed' = [routed EXCEPT
                    !.label = <<SupervisorRoute(routed.given[1]).label,
                                SupervisorRoute(routed.given[2]).label>>,
                    !.after = <<SupervisorRoute(routed.given[1]).state,
                                SupervisorRoute(routed.given[2]).state>>]
    /\ UNCHANGED <<wfVars, wsVars, regVars>>

RegInit ==
    /\ registry = EmptyRegistry
    /\ reg_call = [op |-> "none", name |-> "none", result |-> "none"]

Register(name, func, schema, built) ==
    /\ registry' = RegisterTool(registry, name, func, schema, built)
    /\ reg_call' = [op |-> "register", name |-> name,
                    result |-> IF built THEN "registered" ELSE "raised"]
    /\ UNCHANGED <<wfVars, wsVars, routed>>

Unregister(name) ==
    /\ registry' = UnregisterTool(registry, name)
    /\ reg_call' = [op |-> "unregister", name |-> name,
                    result |-> IF name \in DOMAIN registry.tools THEN "True" ELSE "False"]
    /\ UNCHANGED <<wfVars, wsVars, routed>>

Get(name) ==
    /\ reg_call' = [op |-> "get", name |-> name,
                    result |-> IF GetTool(registry, name).tool
                               THEN IF GetTool(registry, name).schema
                                    THEN "tool and schema" ELSE "tool only"
                               ELSE IF GetTool(registry, name).schema
                                    THEN "schema only" ELSE "None"]
    /\ UNCHANGED registry
    /\ UNCHANGED <<wfVars, wsVars, routed>>

WsInit ==
    /\ active_connections = << >>
    /\ handler = [w \in Sockets |-> NewHandler]
    /\ threads = {}
    /\ emit = [e \in Emitters |-> IdleEmit]
    /\ inbox = [w \in Sockets |-> << >>]

Init == WfInit /\ WsInit /\ RegInit /\ routed = NotRouted

\* websocket_endpoint is entered: manager.connect, then it waits for a message
Connect(w, k) ==
    /\ handler[w].pc = "new"
    /\ active_connections' = Add(active_connections, w, k)
    /\ handler' = [handler EXCEPT ![w].pc = "receive", ![w].conv = k]
    /\ UNCHANGED <<threads, emit, inbox>>
    /\ UNCHANGED <<wfVars, regVars, routed>>

\* receive_json raises WebSocketDisconnect: manager.disconnect, the endpoint ends
Disconnect(w) ==
    /\ handler[w].pc = "receive"
    /\ LET conns2 == Remove(active_connections, {w}, handler[w].conv)
       IN  /\ active_connections' = conns2
           /\ emit' = DropIterators(emit, conns2)
    /\ handler' = [handler EXCEPT ![w].pc = "closed"]
    /\ UNCHANGED <<threads, inbox>>
    /\ UNCHANGED <<wfVars, regVars, routed>>

\* a start_task message: handle_start_task creates the Task row, confirms it and
\* enters the stream loop on thread_id = conversation_id
StartTask(w) ==
    /\ handler[w].pc = "receive"
    /\ handler' = [handler EXCEPT ![w].pc = "stream", ![w].events = 0,
                                  ![w].reply = "task_created",
                                  ![w].final = "pending", ![w].shown = "none",
                                  ![w].task = CreatedTask, ![w].asked = "none"]
    /\ UNCHANGED <<active_connections, threads, emit, inbox>>
    /\ UNCHANGED <<wfVars, regVars, routed>>

\* the stream loop of w yields an event: that of one node, whose state the
\* checkpointer stored under the thread id, or the one built in stream's except
\* branch; the handler emits state_update and updates the Task only for an
\* event it extracts a state from. A run succeeds no earlier than its third
\* node (planner, executor, validator), and nothing follows a terminal event.
StreamEvent(w, kind) ==
    /\ handler[w].pc = "stream"
    /\ handler[w].final = "pending"
    /\ handler[w].events < MaxEvents
    /\ kind = "success" => handler[w].events >= 2
    /\ LET found == ExtractStateFromEvent(StreamEventOf(kind))
       IN  IF found = None
           THEN /\ handler' = [handler EXCEPT ![w].final = kind]
                /\ UNCHANGED threads
           ELSE /\ handler' = [handler EXCEPT
                                 ![w].events = @ + 1,
                                 ![w].final = kind,
                                 ![w].reply = "state_update",
                                 ![w].shown = found[1],
                                 ![w].task = UpdateTaskInDb(@, found[1],
                                                            handler[w].events + 1)]
                /\ threads' = threads \cup {ThreadOf(handler[w].conv)}
    /\ UNCHANGED <<active_connections, emit, inbox>>
    /\ UNCHANGED <<wfVars, regVars, routed>>

\* the stream loop of w is exhausted: handle_start_task returns
StreamEnd(w) ==
    /\ handler[w].pc = "stream"
    /\ handler[w].events > 0 \/ handler[w].final = "error"
    /\ handler' = [handler EXCEPT ![w].pc = "receive"]
    /\ UNCHANGED <<active_connections, threads, emit, inbox>>
    /\ UNCHANGED <<wfVars, regVars, routed>>

\* a resume_task message with task_id = id: resume (a blocking call, so the whole
\* loop runs within this step) raises for a thread without state; for a thread
\* with state the Task lookup by the same id then fails; either way the handler
\* answers task_error on its own websocket
ResumeTask(w, id) ==
    /\ handler[w].pc = "receive"
    /\ handler' = [handler EXCEPT
                      ![w].asked = id,
                      ![w].reply = IF id \in threads /\ id = TaskId THEN "task_resumed"
                                   ELSE "task_error"]
    /\ UNCHANGED <<active_connections, threads, emit, inbox>>
    /\ UNCHANGED <<wfVars, regVars, routed>>

\* send_to_conversation(k, event of e) is called: nothing to do without the key,
\* else the iteration starts and the send to the first websocket is awaited.
\* The event is that of a node of the stream loop of k, whose state is stored
\* under the thread of k (stored), or a notice that goes with no checkpoint.
EmitBegin(e, k, stored) ==
    /\ emit[e].pc = "idle"
    /\ emit' = [emit EXCEPT ![e] =
          IF k \notin DOMAIN active_connections
          THEN [IdleEmit EXCEPT !.pc = "done", !.conv = k]
          ELSE [IdleEmit EXCEPT
                  !.pc = "sending", !.conv = k, !.live = TRUE,
                  !.start = active_connections[k],
                  !.size = Cardinality(active_connections[k]),
                  !.pos = Min(active_connections[k]),
                  !.target = Min(active_connections[k])]]
    /\ threads' = IF stored THEN threads \cup {ThreadOf(k)} ELSE threads
    /\ UNCHANGED <<active_connections, handler, inbox>>
    /\ UNCHANGED <<wfVars, regVars, routed>>

\* the awaited send_json of e returns (ok) or raises: the event is in the
\* client's inbox, or the websocket is noted as disconnected; then the loop goes
\* on, and after the last websocket the noted ones are disconnected
SendReturns(e, ok) ==
    /\ emit[e].pc = "sending"
    /\ LET w == emit[e].target
           sent == IF ok THEN emit[e]
                   ELSE [emit[e] EXCEPT !.failed = @ \cup {w}]
           em2 == EmitNext(sent, active_connections)
           conns2 == IF em2.pc = "done"
                     THEN Remove(active_connections, em2.failed, em2.conv)
                     ELSE active_connections
       IN  /\ inbox' = IF ok THEN [inbox EXCEPT ![w] = Append(@, e)] ELSE inbox
           /\ active_connections' = conns2
           /\ emit' = DropIterators([emit EXCEPT ![e] = [em2 EXCEPT !.failed = {}]],
                                    conns2)
    /\ UNCHANGED <<handler, threads>>
    /\ UNCHANGED <<wfVars, regVars, routed>>

\* the endpoints and their engine loops
NextLoops ==
    \/ \E w \in Sockets, k \in Conversations : Connect(w, k)
    \/ \E w \in Sockets : Disconnect(w)
    \/ \E w \in Sockets : StartTask(w)
    \/ \E w \in Sockets, kind \in EventKinds : StreamEvent(w, kind)
    \/ \E w \in Sockets : StreamEnd(w)
    \/ \E w \in Sockets, id \in Conversations \cup {TaskId} : ResumeTask(w, id)

SpecLoops == Init /\ [][NextLoops]_vars

\* the ConnectionManager under concurrent emits, connects and disconnects
NextDispatch ==
    \/ \E w \in Sockets, k \in Conversations : Connect(w, k)
    \/ \E w \in Sockets : Disconnect(w)
    \/ \E e \in Emitters, k \in Conversations, stored \in BOOLEAN : EmitBegin(e, k, stored)
    \/ \E e \in Emitters, ok \in BOOLEAN : SendReturns(e, ok)

SpecDispatch == Init /\ [][NextDispatch]_vars

NextRegistry ==
    \/ \E name \in ToolNames, func \in Versions, schema \in Versions, built \in BOOLEAN :
          Register(name, func, schema, built)
    \/ \E name \in ToolNames : Unregister(name)
    \/ \E name \in ToolNames : Get(name)

SpecRegistry == Init /\ [][NextRegistry]_vars

\* the router as a function of its argument
InitRoute == WfInit /\ WsInit /\ RegInit /\ RouteInit

NextRoute == ApplyRoute

SpecRoute == InitRoute /\ [][NextRoute]_vars

Next ==
    \/ Start
    \/ Resume
    \/ PlannerNode
    \/ ExecutorNode
    \/ ValidatorNode

Spec == Init /\ [][Next]_vars

\* resume called on a thread that has not been resumed before
ResumeOnce == resumes = 0 /\ Resume

\* the workflow when every node that is invoked returns: the engine awaits the
\* node it selected and goes on as soon as the node has returned; one start
\* loop and one resume loop, on plans of one kind of step
NextLive ==
    \/ Start
    \/ ResumeOnce
    \/ PlannerNodeUniform
    \/ ExecutorNode
    \/ ValidatorNode

SpecLive ==
    /\ Init /\ [][NextLive]_vars
    /\ WF_vars(PlannerNodeUniform) /\ WF_vars(ExecutorNode) /\ WF_vars(ValidatorNode)

\* the workflow on a process that may die in the middle of a node
NextCrash ==
    \/ Next
    \/ Crash

SpecCrash == Init /\ [][NextCrash]_vars

-----------------------------------------------------------------------------
(* Properties *)

Started == state # None
S == state[1]
Steps(s) == {s.todo_list[i] : i \in 1..Len(s.todo_list)}
Running(s) == {i \in 1..Len(s.todo_list) : s.todo_list[i].status = "running"}
Pending == Started /\ S.pending_user_input # None
ExhaustedStep(s) ==
    \E st \in Steps(s) : st.status = "failed" /\ st.retry_count = MAX_RETRY_COUNT

\* the ordered rule list of the router: the label of the first rule that matches
FirstMatchingRule(s) ==
    LET rules ==
          << [when  |-> s.final_status \in {"success", "failed"},      label |-> "end"],
             [when  |-> s.pending_user_input # None,                   label |-> "end"],
             [when  |-> Len(s.todo_list) = 0,                          label |-> "planner"],
             [when  |-> s.current_step_index < Len(s.todo_list),       label |-> "executor"],
             [when  |-> s.current_step_index >= Len(s.todo_list)
                        /\ s.final_status # "success",                 label |-> "validator"],
             [when  |-> TRUE,                                          label |-> "end"] >>
        first == CHOOSE i \in 1..Len(rules) :
                    rules[i].when /\ \A j \in 1..(i - 1) : ~rules[j].when
    IN  rules[first].label

\* C1: in every state the thread reaches, route returns the label of the first
\* matching rule of the ordered list (terminal status, suspension, empty plan,
\* steps left, all steps done, default).
C1_RouteFirstMatch == Started => Route(S) = FirstMatchingRule(S)

\* the loop is about to enter the Validator because the router said so
C1_Witness == Started /\ pc = "validator" /\ Route(S) = "validator"

\* C2: current_step_index stays within 0 .. len(todo_list) after any sequence
\* of planner, executor, validator and resume steps.
C2_IndexInRange ==
    Started => 0 <= S.current_step_index /\ S.current_step_index <= Len(S.todo_list)

\* a resumed thread has run its new plan to the end
C2_Witness ==
    /\ Started /\ resumes > 0
    /\ Len(S.todo_list) > 0 /\ S.current_step_index = Len(S.todo_list)

\* C3: no step ever has retry_count above MAX_RETRY_COUNT.
C3_RetryBounded ==
    Started => \A st \in Steps(S) : st.retry_count <= MAX_RETRY_COUNT

\* a step has used up its retries on a thread that was suspended and resumed
C3_Witness ==
    Started /\ resumes > 0 /\ \E st \in Steps(S) : st.retry_count = MAX_RETRY_COUNT

\* C4: at most one step of todo_list is running.
C4_OneRunning == Started => Cardinality(Running(S)) <= 1

\* a step is running (suspended) after an earlier step completed
C4_Witness ==
    /\ Started /\ Cardinality(Running(S)) = 1
    /\ \E st \in Steps(S) : st.status = "completed"

\* C5: final_status = success implies every step of todo_list is completed.
C5_SuccessAllCompleted ==
    (Started /\ S.final_status = "success") => AllCompleted(S)

C8_FailedByStepOrValidator ==
    (Started /\ S.final_status = "failed") => ExhaustedStep(S) \/ rejected

BecomesFailed ==
    /\ state' # None /\ state'[1].final_status = "failed"
    /\ (state = None \/ state[1].final_status # "failed")

\* C8 amended: final_status turns failed only in the Executor with a step that
\* used up its retries, in the Validator, in the Planner when planning raises,
\* or in the except branch of run.
C8_FailedOnlyBy ==
    [][BecomesFailed =>
          \/ pc = "executor" /\ ExhaustedStep(state'[1])
          \/ pc = "validator" /\ rejected'
          \/ pc = "planner"
             /\ state'[1].error_info = Some(ErrorInfo("Planning error", 0, ""))
          \/ pc = "planner" /\ entry = "run"
             /\ state'[1].error_info = Some(ErrorInfo("engine error", 0, ""))]_vars

\* the Planner failed the run: no step exists, the Validator never ran
C8_Witness ==
    /\ Started /\ S.final_status = "failed" /\ ~rejected /\ ~ExhaustedStep(S)
    /\ S.error_info = Some(ErrorInfo("Planning error", 0, ""))

\* C9: todo_list never holds more than MAX_TASK_STEPS steps.
C9_PlanWithinCap == Started => Len(S.todo_list) <= MAX_TASK_STEPS

\* C10: a completed step has tool_output set or has no tool_name, and a failed
\* step has error set.
C10_StatusMatchesPayload ==
    Started =>
        \A st \in Steps(S) :
            /\ st.status = "completed" => (st.tool_output # None \/ st.tool_name = NoTool)
            /\ st.status = "failed" => st.error # None

\* a tool step completed with its output and a later step failed with its error
C10_Witness ==
    /\ Started
    /\ \E st \in Steps(S) :
          st.status = "completed" /\ st.tool_name # NoTool /\ st.tool_output # None
    /\ \E st \in Steps(S) : st.status = "failed" /\ st.error # None


-----------------------------------------------------------------------------
(* Retries, suspension and resume *)

\* this Executor step is a failed attempt that brings a step of a registered
\* tool to MAX_RETRY_COUNT failures
LastAttemptFails ==
    /\ pc = "executor"
    /\ state[1].current_step_index < Len(state[1].todo_list)
    /\ state[1].todo_list[Cur(state[1])].tool_name \in Registered
    /\ state'[1].todo_list[Cur(state[1])].retry_count = MAX_RETRY_COUNT

\* the state a run is left in when a step used up its retries
FailedAfterRetries ==
    LET s2 == state'[1]
        st == s2.todo_list[Cur(state[1])]
    IN  /\ s2.final_status = "failed"
        /\ st.status = "failed"
        /\ st.retry_count = MAX_RETRY_COUNT
        /\ s2.error_info # None
        /\ s2.error_info[1].text = "Step failed after N retries"
        /\ s2.error_info[1].n = MAX_RETRY_COUNT
        /\ pc' = "idle"
        /\ checkpoint' = state'

\* C11 as stated: when a step whose tool fails on every call uses up its
\* retries, the invoker was called exactly MAX_RETRY_COUNT times for it within
\* the run, and the run ends failed with the step failed, retry_count 3 and
\* error_info "Step failed after 3 retries".
C11_ExactlyThreeCalls ==
    [][(LastAttemptFails
        /\ state'[1].error_info # None
        /\ state'[1].error_info[1].detail
              \in {"Tool execution timeout", "Tool execution failed"})
       => (invoked'.calls = MAX_RETRY_COUNT /\ FailedAfterRetries)]_vars

\* C11 amended: the invoker is called at most MAX_RETRY_COUNT times for a step
\* within one run, exactly MAX_RETRY_COUNT less the attempts that raised before
\* the invoker was reached (parameter synthesis raised); the attempt that brings
\* retry_count to MAX_RETRY_COUNT ends the run failed, the step failed, and
\* error_info "Step failed after 3 retries", with no further node invoked.
C11_AtMostThreeCalls ==
    [][LastAttemptFails
       => (/\ invoked'.calls + invoked'.skipped = MAX_RETRY_COUNT
           /\ invoked'.calls <= MAX_RETRY_COUNT
           /\ FailedAfterRetries)]_vars

C11_Witness ==
    /\ Started /\ pc = "idle" /\ S.final_status = "failed"
    /\ ExhaustedStep(S)
    /\ invoked.calls = MAX_RETRY_COUNT

\* C12: when parameter synthesis returns the sentinel, the Executor records
\* pending_user_input with step_id, tool_name, missing_params and reason, does
\* not call the invoker, leaves the step running and retry_count,
\* current_step_index and step_results as they were, final_status stays pending,
\* and the loop ends with this state checkpointed.
C12_SentinelSuspends ==
    [][(pc = "executor" /\ state'[1].pending_user_input # None)
       => LET s == state[1]
              s2 == state'[1]
          IN  /\ s.current_step_index < Len(s.todo_list)
              /\ s2.pending_user_input = Some(PendingInput(s.todo_list[Cur(s)]))
              /\ DOMAIN s2.pending_user_input[1]
                    = {"step_id", "tool_name", "missing_params", "reason"}
              /\ invoked' = invoked
              /\ s2.todo_list[Cur(s)].status = "running"
              /\ s2.todo_list[Cur(s)].retry_count = s.todo_list[Cur(s)].retry_count
              /\ s2.todo_list[Cur(s)].tool_output = None
              /\ s2.current_step_index = s.current_step_index
              /\ s2.step_results = s.step_results
              /\ s2.final_status = "pending"
              /\ pc' = "idle"
              /\ checkpoint' = state']_vars

C12_Witness ==
    /\ Pending /\ pc = "idle" /\ checkpoint = state
    /\ S.todo_list[Cur(S)].retry_count > 0

\* a tool_input that holds the values the user supplied on resume (the Executor
\* stores only what parameter synthesis returned: "args" or "empty")
ContainsUserValues(tool_input) == tool_input = Some("args and user values")

\* this Executor step called the invoker
ToolCalled ==
    /\ pc = "executor"
    /\ state[1].current_step_index < Len(state[1].todo_list)
    /\ state[1].todo_list[Cur(state[1])].tool_name # NoTool
    /\ \/ invoked'.calls > invoked.calls
       \/ state'[1].todo_list[Cur(state[1])].status = "completed"

\* C13: after a resume with a non-empty user_provided_config the tool is invoked
\* with the step's tool_input merged with the user's values.
C13_ResumeMergesConfig ==
    [][(ToolCalled /\ entry = "resume"
        /\ state[1].user_provided_config = Some("smtp"))
       => ContainsUserValues(state'[1].todo_list[Cur(state[1])].tool_input)]_vars

\* C14: after resume of a suspended thread the next node is the Executor on the
\* step that was suspended: the Planner is not run again and the plan and the
\* step index are the stored ones.
C14_ResumeEntersExecutor ==
    [][(pc = "idle" /\ pc' # "idle"
        /\ checkpoint # None /\ checkpoint[1].pending_user_input # None)
       => (/\ pc' = "executor"
           /\ state'[1].todo_list = checkpoint[1].todo_list
           /\ state'[1].current_step_index = checkpoint[1].current_step_index)]_vars

\* C15: resume on a thread that has no checkpoint raises and changes nothing:
\* no checkpoint is created and no node is invoked.
C15_ResumeUnknownThread ==
    [][(resumes' = resumes + 1 /\ checkpoint = None)
       => (/\ resume_error' = "No state found for thread"
           /\ pc' = "idle"
           /\ UNCHANGED <<state, checkpoint, entry, rejected, plans, invoked>>)]_vars

C15_Witness == resume_error = "No state found for thread" /\ checkpoint = None

\* C16: resume with an empty config on a thread whose pending_user_input is
\* already cleared leaves todo_list, current_step_index and step_results as
\* they were stored.
C16_ResumeClearedIsNoOp ==
    [][(pc = "planner" /\ entry = "resume"
        /\ checkpoint # None /\ checkpoint[1].pending_user_input = None
        /\ state[1].user_provided_config = Some("empty"))
       => (/\ state'[1].todo_list = checkpoint[1].todo_list
           /\ state'[1].current_step_index = checkpoint[1].current_step_index
           /\ state'[1].step_results = checkpoint[1].step_results)]_vars

-----------------------------------------------------------------------------
(* Engine loops per thread and the stream dispatcher *)

\* the websockets whose handler is inside a stream loop on thread k
ActiveLoops(k) == {w \in Sockets : handler[w].pc = "stream" /\ handler[w].conv = k}

\* C17: at any time at most one engine loop is active for a thread_id, also
\* when two clients of the conversation send start_task concurrently.
C17_OneLoopPerThread == \A k \in Conversations : Cardinality(ActiveLoops(k)) <= 1

\* the event of e is in the inbox of w
Got(box, w, e) == \E i \in 1..Len(box[w]) : box[w][i] = e

\* the call of e returns or raises in this step
Completes(e) == emit[e].pc = "sending" /\ emit'[e].pc \in {"done", "raised"}

\* C18: when an emit is over, every websocket that was subscribed when it began
\* has received the event or is no longer in the set (a failing subscriber is
\* removed, the others still receive the event).
C18_EmitReachesSubscribers ==
    [][\A e \in Emitters :
          Completes(e)
          => \A w \in emit[e].start :
                \/ Got(inbox', w, e)
                \/ w \notin Subscribers(active_connections', emit[e].conv)]_vars

\* the event a comes before the event b in the inbox of w
Before(w, a, b) ==
    \E i, j \in 1..Len(inbox[w]) : i < j /\ inbox[w][i] = a /\ inbox[w][j] = b

\* C19: two events of one conversation are received in the same relative order
\* by every subscriber that receives both.
C19_SameOrderEverywhere ==
    \A a, b \in Emitters : \A w1, w2 \in Sockets :
        (/\ emit[a].conv = emit[b].conv
         /\ Before(w1, a, b)
         /\ Got(inbox, w2, a) /\ Got(inbox, w2, b))
        => Before(w2, a, b)

\* C20: an emit that runs concurrently with connect and disconnect on its
\* conversation never ends in an error: the set is not changed under its
\* iteration.
C20_EmitNeverRaises == \A e \in Emitters : emit[e].pc # "raised"

-----------------------------------------------------------------------------
(* Tool registry *)

\* C21: register with a name that is already in the registry fails with
\* DuplicateTool and leaves the registered function and schema in place.
C21_DuplicateRejected ==
    [][(reg_call'.op = "register" /\ reg_call'.name \in DOMAIN registry.tools)
       => (reg_call'.result = "DuplicateTool" /\ registry' = registry)]_vars

\* C22: the names with an invoker are the names with a schema, so get returns
\* both or neither; unregister of a registered name removes both entries and
\* returns True, unregister of another name returns False and changes nothing.
C22_ToolsAndSchemasAgree ==
    [][/\ DOMAIN registry'.tools = DOMAIN registry'.schemas
       /\ reg_call'.op = "get"
            => reg_call'.result = IF reg_call'.name \in DOMAIN registry.tools
                                  THEN "tool and schema" ELSE "None"
       /\ reg_call'.op = "unregister"
            => IF reg_call'.name \in DOMAIN registry.tools
               THEN /\ reg_call'.result = "True"
                    /\ registry'.tools = Del(registry.tools, reg_call'.name)
                    /\ registry'.schemas = Del(registry.schemas, reg_call'.name)
               ELSE /\ reg_call'.result = "False"
                    /\ registry' = registry]_vars

C22_Witness ==
    /\ reg_call.op = "unregister" /\ reg_call.result = "True"
    /\ DOMAIN registry.tools # {}
    /\ reg_call.name \notin DOMAIN registry.schemas

-----------------------------------------------------------------------------
(* The stream loop of handle_start_task: errors, resumption, the Task row *)

\* the stream loop of w is over
LoopEnded(w) == handler[w].pc = "receive" /\ handler[w].final # "none"

\* C23: when a node or the engine raises during a streamed run, the failure
\* reaches the subscribers as a state_update whose state has final_status =
\* failed; it is not dropped.
C23_EngineErrorSurfaces ==
    \A w \in Sockets :
        handler[w].final = "error"
            => handler[w].reply = "state_update" /\ handler[w].shown = "failed"

\* C28: a run that suspended after start_task is resumed by a resume_task
\* message that names its task: resume finds the checkpoint of the run.
C28_SuspendedRunResumes ==
    [][\A w \in Sockets :
          (/\ LoopEnded(w) /\ handler[w].final = "pending"
           /\ handler[w].conv \in threads
           /\ handler'[w].pc = "receive" /\ handler'[w] # handler[w]
           /\ handler'[w].asked = TaskId)
          => handler'[w].reply = "task_resumed"]_vars

\* the stored status says what the final_status says
Corresponds(status, final_status) ==
    \/ status = final_status
    \/ status = "completed" /\ final_status = "success"

\* C29: when the stream loop has ended, the Task row holds the fields of the
\* last state that was emitted, also when that state has final_status = success.
C29_TaskFollowsLastState ==
    \A w \in Sockets :
        (LoopEnded(w) /\ handler[w].shown # "none")
            => /\ handler[w].task.version = handler[w].events
               /\ Corresponds(handler[w].task.status, handler[w].shown)

-----------------------------------------------------------------------------
(* The router's inputs, unknown tools, retries *)

\* C26: route changes nothing in the state it is given, and two states that
\* agree on final_status, pending_user_input, the length of todo_list and
\* current_step_index get the same label, whatever else they hold.
C26_RouteReadsFourFields ==
    routed.label # <<>>
        => /\ routed.after = routed.given
           /\ routed.label[1] = routed.label[2]

C26_Witness ==
    /\ routed.label # <<>>
    /\ routed.label[1] = "executor"
    /\ routed.given[1].error_info # routed.given[2].error_info
    /\ routed.given[1].todo_list # routed.given[2].todo_list

\* the steps of s whose tool_name is not a registered tool
UnknownToolSteps(s) ==
    {i \in 1..Len(s.todo_list) : s.todo_list[i].tool_name \notin Registered \cup {NoTool}}

\* C27: a step whose tool_name is not registered fails on the lookup, in every
\* attempt, before parameter synthesis and before any invoker; when the run
\* has used up its retries it is failed and error_info says Tool not found.
C27_UnknownToolFails ==
    Started => \A i \in UnknownToolSteps(S) :
        LET step == S.todo_list[i]
        IN  /\ \A synth \in SynthOutcomes, tool \in ToolOutcomes :
                  ExecuteToolStep(step, synth, tool) =
                     [step |-> step, raised |-> TRUE, called |-> FALSE,
                      value |-> "Tool not found"]
            /\ step.tool_input = None /\ step.tool_output = None
            /\ i = Cur(S) => invoked.calls = 0
            /\ step.retry_count >= MAX_RETRY_COUNT
                  => step.status = "failed" /\ S.final_status = "failed"
            /\ (i = Cur(S) /\ invoked.skipped = MAX_RETRY_COUNT)
                  => /\ step.retry_count = MAX_RETRY_COUNT
                     /\ S.error_info = Some(ErrorInfo("Step failed after N retries",
                                                      MAX_RETRY_COUNT, "Tool not found"))

C27_Witness ==
    /\ Started /\ S.final_status = "failed"
    /\ Cur(S) \in UnknownToolSteps(S)
    /\ S.todo_list[Cur(S)].retry_count = MAX_RETRY_COUNT
    /\ invoked.skipped = MAX_RETRY_COUNT

\* the attempt of this step on the current step raised and may be retried
RetryableFailure ==
    /\ pc = "executor" /\ Started /\ state' # None
    /\ Cur(S) <= Len(S.todo_list) /\ Len(state'[1].todo_list) = Len(S.todo_list)
    /\ state'[1].todo_list[Cur(S)].retry_count = S.todo_list[Cur(S)].retry_count + 1
    /\ state'[1].todo_list[Cur(S)].retry_count < MAX_RETRY_COUNT

\* C30: when the attempt on the current step raises and retry_count after the
\* increment is below MAX_RETRY_COUNT, the step goes back to pending with its
\* error set, current_step_index, step_results and final_status stay as they
\* were, and the Supervisor routes to the Executor again.
C30_RetryGoesBackToExecutor ==
    [][RetryableFailure =>
          /\ state'[1].todo_list[Cur(S)].status = "pending"
          /\ state'[1].todo_list[Cur(S)].error # None
          /\ state'[1].current_step_index = S.current_step_index
          /\ state'[1].step_results = S.step_results
          /\ state'[1].final_status = S.final_status
          /\ Route(state'[1]) = "executor" /\ pc' = "executor"]_vars

C30_Witness ==
    /\ Started /\ pc = "executor" /\ Cur(S) <= Len(S.todo_list)
    /\ S.todo_list[Cur(S)].status = "pending"
    /\ S.todo_list[Cur(S)].retry_count = MAX_RETRY_COUNT - 1
    /\ S.todo_list[Cur(S)].error # None

-----------------------------------------------------------------------------
(* Crash in the middle of a node *)

\* the first node of the run that follows a crash returns in this step
RerunAfterCrash ==
    /\ crashed /\ entry = "resume" /\ pc = "planner"
    /\ checkpoint # None /\ state' # None /\ state' # state

\* C25: a crash in the middle of a node leaves the stored state as it was
\* written after the last completed node, and the next run of the thread goes
\* on from it with todo_list, current_step_index and step_results intact.
C25_CrashedThreadContinues ==
    [][/\ (crashed' /\ ~crashed) => (checkpoint' = checkpoint /\ state' = checkpoint)
       /\ RerunAfterCrash
            => /\ state'[1].todo_list = checkpoint[1].todo_list
               /\ state'[1].current_step_index = checkpoint[1].current_step_index
               /\ state'[1].step_results = checkpoint[1].step_results]_vars

-----------------------------------------------------------------------------
(* Serial progress of the steps *)

\* step_results has one entry per step before the index, those steps are
\* completed and the steps after the current one are pending
StepsInOrder(s) ==
    /\ Len(s.step_results) = s.current_step_index
    /\ \A i \in 1..Len(s.todo_list) :
          /\ i <= s.current_step_index => s.todo_list[i].status = "completed"
          /\ i > s.current_step_index + 1 => s.todo_list[i].status = "pending"

\* execute_step ran on a current step in this step of the loop
ExecutorRan ==
    /\ pc = "executor" /\ Started /\ state' # None /\ state' # state
    /\ Cur(S) <= Len(S.todo_list) /\ Len(state'[1].todo_list) = Len(S.todo_list)

\* C31: one Executor invocation moves current_step_index by 0 or by 1, by 1
\* exactly when the current step completed, and then appends the one entry of
\* that step to step_results; in every state step_results has as many entries
\* as the index says, the steps before the index are completed and the steps
\* after the current one are pending.
C31_SerialProgress ==
    [][/\ state' # None => StepsInOrder(state'[1])
       /\ ExecutorRan =>
             LET t == state'[1]
                 done == t.todo_list[Cur(S)].status = "completed"
             IN  /\ t.current_step_index =
                       IF done THEN S.current_step_index + 1 ELSE S.current_step_index
                 /\ t.step_results =
                       IF done
                       THEN Append(S.step_results,
                                   [step_id |-> S.todo_list[Cur(S)].id,
                                    result |-> t.todo_list[Cur(S)].tool_output])
                       ELSE S.step_results]_vars

-----------------------------------------------------------------------------
(* Parameter synthesis *)

\* the Executor is about to run a step of a registered tool and will ask the
\* Chat Generator for its arguments
SynthesisDue ==
    /\ pc = "executor" /\ Started /\ Cur(S) <= Len(S.todo_list)
    /\ S.todo_list[Cur(S)].tool_name \in Registered
    /\ Falsy(S.todo_list[Cur(S)].tool_input)

\* C32: when parameter synthesis returns unparseable output the attempt does
\* not fail there: tool_input becomes the empty mapping, the tool is invoked
\* with it, and only the outcome of the invocation decides whether the step
\* completes or the attempt counts as a failure.
C32_UnparseableIsEmptyMapping ==
    SynthesisDue =>
        \A tool \in ToolOutcomes :
            LET step == MarkRunning(S).todo_list[Cur(S)]
                r == ExecuteToolStep(step, "unparseable", tool)
                t == ExecuteStep(S, "unparseable", tool).todo_list[Cur(S)]
            IN  /\ r.called /\ r.step.tool_input = Some("empty")
                /\ r.raised <=> tool # "ok"
                /\ t.tool_input = Some("empty")
                /\ t.retry_count = step.retry_count + (IF tool = "ok" THEN 0 ELSE 1)
                /\ tool = "ok" => t.status = "completed"

C32_Witness ==
    /\ Started /\ S.current_step_index >= 1
    /\ S.todo_list[1].tool_input = Some("empty")
    /\ S.todo_list[1].status = "completed"
    /\ S.todo_list[1].retry_count = 0

\* C33: once tool_input has been stored for a step, the empty mapping
\* included, a later attempt on the step does not ask the Chat Generator
\* again: it neither replaces the stored tool_input nor suspends the run.
C33_SynthesisOnlyWhileAbsent ==
    [][(ExecutorRan /\ S.todo_list[Cur(S)].tool_input # None)
          => /\ state'[1].todo_list[Cur(S)].tool_input = S.todo_list[Cur(S)].tool_input
             /\ state'[1].pending_user_input = None]_vars

-----------------------------------------------------------------------------
(* The Validator's and the Planner's outcomes *)

\* C34: whatever the Chat Generator answers, the Validator leaves final_status
\* success or failed, so the Supervisor's label after it is end: the edge from
\* the validator to the planner is never taken, and the Planner runs once per
\* start or resume.
C34_ValidatorAlwaysEnds ==
    /\ (pc = "validator" /\ Started)
          => \A verdict \in Verdicts :
                /\ Validate(S, verdict).final_status \in {"success", "failed"}
                /\ Route(Validate(S, verdict)) = "end"
    /\ plans <= resumes + 1

C34_Witness ==
    /\ Started /\ pc = "idle"
    /\ S.current_agent = "validator" /\ S.final_status = "success"
    /\ plans = 1

\* C35: when all steps are completed and the verdict says is_successful =
\* false, the Validator sets final_status = failed and error_info to the
\* verdict's failure_reason, leaves the steps completed and step_results as
\* they were, and the run ends.
C35_RejectionFailsRun ==
    (pc = "validator" /\ Started /\ AllCompleted(S))
        => LET v == Validate(S, "rejected")
           IN  /\ v.final_status = "failed"
               /\ v.error_info = Some(ErrorInfo("failure_reason", 0, ""))
               /\ v.todo_list = S.todo_list /\ AllCompleted(v)
               /\ v.step_results = S.step_results
               /\ v.current_step_index = S.current_step_index
               /\ Route(v) = "end"

C35_Witness ==
    /\ Started /\ pc = "idle" /\ rejected
    /\ S.final_status = "failed"
    /\ S.error_info = Some(ErrorInfo("failure_reason", 0, ""))
    /\ S.todo_list # <<>> /\ AllCompleted(S)
    /\ Len(S.step_results) = Len(S.todo_list)

\* C36: a Planner that fails sets final_status = failed and an error_info that
\* starts with "Planning error", leaves todo_list and current_step_index as
\* they were, and the loop ends with no other node invoked.
C36_PlannerFailureEndsRun ==
    (pc = "planner" /\ Started)
        => LET p == Plan(S, [ok |-> FALSE, steps |-> <<>>], plans + 1)
           IN  /\ p.final_status = "failed"
               /\ p.error_info = Some(ErrorInfo("Planning error", 0, ""))
               /\ p.todo_list = S.todo_list
               /\ p.current_step_index = S.current_step_index
               /\ Route(p) = "end"

C36_Witness ==
    /\ Started /\ pc = "idle" /\ entry = "resume"
    /\ S.final_status = "failed"
    /\ S.error_info = Some(ErrorInfo("Planning error", 0, ""))
    /\ S.todo_list # <<>> /\ S.pending_user_input = None
    /\ S.todo_list[Cur(S)].status = "running"

-----------------------------------------------------------------------------
(* The Executor's branch for a finished plan *)

\* C38: the Supervisor hands over to the Executor only while a step is left,
\* so execute_step never takes its branch for a finished plan, and
\* final_status becomes success only in a Validator invocation that runs when
\* every step is completed.
C38_SuccessOnlyByValidator ==
    [][/\ state' # None /\ pc' = "executor"
            => state'[1].current_step_index < Len(state'[1].todo_list)
       /\ (state' # None /\ state'[1].final_status = "success"
              /\ (state = None \/ state[1].final_status # "success"))
            => /\ pc = "validator"
               /\ S.current_step_index = Len(S.todo_list)
               /\ AllCompleted(S)]_vars

C38_Witness ==
    /\ Started /\ pc = "idle" /\ S.final_status = "success"
    /\ S.current_agent = "validator"
    /\ Len(S.todo_list) >= 1 /\ AllCompleted(S)
    /\ S.current_step_index = Len(S.todo_list)

-----------------------------------------------------------------------------
(* Terminal threads *)

\* the stored state of the thread has a terminal final_status
TerminalCheckpoint ==
    checkpoint # None /\ checkpoint[1].final_status \in {"success", "failed"}

\* C39: once the stored state of a thread has final_status success or failed,
\* no resume invokes a node on it, and its final_status, todo_list,
\* current_step_index and step_results never change again.
C39_TerminalIsAbsorbing ==
    [][TerminalCheckpoint
          => /\ pc' = "idle"
             /\ checkpoint' # None
             /\ checkpoint'[1].final_status = checkpoint[1].final_status
             /\ checkpoint'[1].todo_list = checkpoint[1].todo_list
             /\ checkpoint'[1].current_step_index = checkpoint[1].current_step_index
             /\ checkpoint'[1].step_results = checkpoint[1].step_results]_vars

-----------------------------------------------------------------------------
(* Termination of the loop *)

\* the loop ends in this step
LoopEnds == pc # "idle" /\ pc' = "idle"

-----------------------------------------------------------------------------
(* Isolation of the conversations *)

\* the emit of e begins in this step
Begins(e) == emit[e].pc = "idle" /\ emit'[e].pc # "idle"

====
